---------------------------- MODULE Spec2Model ----------------------------
(***************************************************************************)
(* Model of the Geoapify plugin: the waypoint normalizer                   *)
(* (geoapify/api/routing.py: _normalize_waypoints and its helpers), the    *)
(* two routing endpoints (heavy_truck_distance, heavy_truck_route_geojson) *)
(* and the autocomplete endpoint (geoapify/geoapify.py).                   *)
(*                                                                         *)
(* Text is a sequence of one-character strings.  A Python float is the     *)
(* decimal number it was read from: [kind, neg, m, k] stands for           *)
(* (-1)^neg * m * 10^-k, with m not divisible by 10 unless k = 0; "nan"    *)
(* and "inf" are the two non-finite kinds.  For numerals of at most 15     *)
(* significant digits float() and repr() are exact on that reading.        *)
(***************************************************************************)
EXTENDS Integers, Sequences, FiniteSets, TLC

(***************************************************************************)
(* Text helpers (Python str methods).                                      *)
(***************************************************************************)
Digits == <<"0", "1", "2", "3", "4", "5", "6", "7", "8", "9">>

IsDigit(c) == \E i \in 1..10 : Digits[i] = c

DigitVal(c) == (CHOOSE i \in 1..10 : Digits[i] = c) - 1

\* The whitespace characters of the model's alphabet.
IsSpace(c) == c = " "

RECURSIVE LStrip(_)
LStrip(s) == IF s # <<>> /\ IsSpace(Head(s)) THEN LStrip(Tail(s)) ELSE s

RECURSIVE RStrip(_)
RStrip(s) ==
    IF s # <<>> /\ IsSpace(s[Len(s)]) THEN RStrip(SubSeq(s, 1, Len(s) - 1)) ELSE s

\* str.strip()
Strip(s) == RStrip(LStrip(s))

\* str.split(sep) for a one-character separator: always at least one piece.
RECURSIVE Split(_, _)
Split(s, sep) ==
    IF \A i \in 1..Len(s) : s[i] # sep
    THEN <<s>>
    ELSE LET i == CHOOSE j \in 1..Len(s) :
                      s[j] = sep /\ \A h \in 1..(j - 1) : s[h] # sep
         IN <<SubSeq(s, 1, i - 1)>> \o Split(SubSeq(s, i + 1, Len(s)), sep)

\* sep.join(parts)
RECURSIVE Join(_, _)
Join(parts, sep) ==
    IF parts = <<>> THEN <<>>
    ELSE IF Len(parts) = 1 THEN parts[1]
    ELSE parts[1] \o sep \o Join(Tail(parts), sep)

RECURSIVE Pow10(_)
Pow10(n) == IF n = 0 THEN 1 ELSE 10 * Pow10(n - 1)

\* The decimal digits of a natural number.
RECURSIVE NatText(_)
NatText(n) ==
    IF n < 10 THEN <<Digits[n + 1]>> ELSE NatText(n \div 10) \o <<Digits[(n % 10) + 1]>>

\* The value of a non-empty run of digits.
RECURSIVE DigitsVal(_)
DigitsVal(s) ==
    IF s = <<>> THEN 0
    ELSE DigitsVal(SubSeq(s, 1, Len(s) - 1)) * 10 + DigitVal(s[Len(s)])

AllDigits(s) == \A i \in 1..Len(s) : IsDigit(s[i])

(***************************************************************************)
(* Floats.                                                                 *)
(***************************************************************************)
NaN == [kind |-> "nan", neg |-> FALSE, m |-> 0, k |-> 0]

Inf(neg) == [kind |-> "inf", neg |-> neg, m |-> 0, k |-> 0]

\* The float of (-1)^neg * m * 10^-k, trailing zeros of the fraction dropped.
RECURSIVE Fin(_, _, _)
Fin(neg, m, k) ==
    IF k > 0 /\ m % 10 = 0 THEN Fin(neg, m \div 10, k - 1)
    ELSE [kind |-> "fin", neg |-> neg, m |-> m, k |-> k]

\* a <= b for floats; every comparison with nan is false.
FloatLe(a, b) ==
    /\ a.kind # "nan" /\ b.kind # "nan"
    /\ IF a.kind = "inf" THEN a.neg \/ (b.kind = "inf" /\ ~b.neg)
       ELSE IF b.kind = "inf" THEN ~b.neg
       ELSE LET sa == IF a.neg THEN -1 ELSE 1
                sb == IF b.neg THEN -1 ELSE 1
            IN sa * a.m * Pow10(b.k) <= sb * b.m * Pow10(a.k)

\* The literal bounds of _validate_lat_lon.
F(n) == Fin(n < 0, IF n < 0 THEN -n ELSE n, 0)

\* Letters are folded as float() folds them ("NaN", "INF", "1E5").
Lower(c) ==
    CASE c = "A" -> "a" [] c = "E" -> "e" [] c = "F" -> "f" [] c = "I" -> "i"
      [] c = "N" -> "n" [] c = "T" -> "t" [] c = "Y" -> "y" [] OTHER -> c

LowerText(s) == [i \in 1..Len(s) |-> Lower(s[i])]

NoFloat == [ok |-> FALSE, val |-> NaN]

\* m * 10^-k as a float, k of either sign.
Scaled(neg, m, k) ==
    [ok |-> TRUE, val |-> IF k >= 0 THEN Fin(neg, m, k) ELSE Fin(neg, m * Pow10(0 - k), 0)]

\* The numeral with integer digits ip, fraction digits fp and, when has_exp, the
\* exponent digits ed of sign eneg.
DecimalOfFields(neg, ip, fp, has_exp, eneg, ed) ==
    IF /\ AllDigits(ip) /\ AllDigits(fp) /\ Len(ip) + Len(fp) >= 1
       /\ has_exp => (ed # <<>> /\ AllDigits(ed))
    THEN Scaled(neg, DigitsVal(ip \o fp),
                Len(fp) + (IF eneg THEN DigitsVal(ed) ELSE 0 - DigitsVal(ed)))
    ELSE NoFloat

\* mp: the mantissa split at "."; ex: the text after "e" (none when ~has_exp).
DecimalOfParts(neg, mp, has_exp, ex) ==
    IF Len(mp) > 2 THEN NoFloat
    ELSE DecimalOfFields(neg, mp[1], IF Len(mp) = 2 THEN mp[2] ELSE <<>>, has_exp,
                         ex # <<>> /\ Head(ex) = "-",
                         IF ex # <<>> /\ Head(ex) \in {"+", "-"} THEN Tail(ex) ELSE ex)

\* ep: the numeral split at "e".
DecimalOfSplit(neg, ep) ==
    IF Len(ep) > 2 THEN NoFloat
    ELSE DecimalOfParts(neg, Split(ep[1], "."), Len(ep) = 2,
                        IF Len(ep) = 2 THEN ep[2] ELSE <<>>)

\* An unsigned decimal numeral: digits [. digits] or . digits, then [e [sign] digits].
DecimalOfText(neg, r) == DecimalOfSplit(neg, Split(r, "e"))

\* The numeral r after the sign.
UnsignedFloat(neg, r) ==
    IF r = <<>> THEN NoFloat
    ELSE IF r = <<"n", "a", "n">> THEN [ok |-> TRUE, val |-> NaN]
    ELSE IF r \in {<<"i", "n", "f">>, <<"i", "n", "f", "i", "n", "i", "t", "y">>}
         THEN [ok |-> TRUE, val |-> Inf(neg)]
    ELSE DecimalOfText(neg, r)

\* The stripped, case-folded text t.
SignedFloat(t) ==
    UnsignedFloat(t # <<>> /\ Head(t) = "-",
                  IF t # <<>> /\ Head(t) \in {"+", "-"} THEN Tail(t) ELSE t)

\* float(s) for a str s: surrounding whitespace ignored, an optional sign, then
\* "nan", "inf", "infinity" or a decimal numeral; anything else is a ValueError.
FloatOfText(s) == SignedFloat(LowerText(Strip(s)))

RECURSIVE Zeros(_)
Zeros(n) == IF n <= 0 THEN <<>> ELSE <<"0">> \o Zeros(n - 1)

RECURSIVE DropTrailingZeros(_)
DropTrailingZeros(d) ==
    IF Len(d) > 1 /\ d[Len(d)] = "0" THEN DropTrailingZeros(SubSeq(d, 1, Len(d) - 1))
    ELSE d

\* repr(x) of a float, which is what an f-string renders: the shortest numeral
\* that reads back as x, in exponent form when the leading digit stands below
\* 10^-4 or at 10^16 and above.
\* Exponent form: d.ddd e+XX, the exponent of at least two digits.
ReprExp(sd, lead, ea) ==
    <<sd[1]>> \o (IF Len(sd) > 1 THEN <<".">> \o Tail(sd) ELSE <<>>)
    \o <<"e", IF lead < 0 THEN "-" ELSE "+">>
    \o (IF ea < 10 THEN <<"0">> ELSE <<>>) \o NatText(ea)

\* The digits d of m with the point k places from the right; lead is the power
\* of ten of the leading digit.
ReprDigits(d, k, lead) ==
    IF lead < -4 \/ lead >= 16
    THEN ReprExp(DropTrailingZeros(d), lead, IF lead < 0 THEN 0 - lead ELSE lead)
    ELSE IF k = 0 THEN d \o <<".", "0">>
    ELSE IF Len(d) > k
         THEN SubSeq(d, 1, Len(d) - k) \o <<".">> \o SubSeq(d, Len(d) - k + 1, Len(d))
    ELSE <<"0", ".">> \o Zeros(k - Len(d)) \o d

ReprFinite(d, k) == ReprDigits(d, k, Len(d) - k - 1)

Repr(x) ==
    (IF x.neg /\ x.kind # "nan" THEN <<"-">> ELSE <<>>)
    \o (IF x.kind = "nan" THEN <<"n", "a", "n">>
        ELSE IF x.kind = "inf" THEN <<"i", "n", "f">>
        ELSE IF x.m = 0 THEN <<"0", ".", "0">>
        ELSE ReprFinite(NatText(x.m), x.k))

(***************************************************************************)
(* Python values: what an endpoint argument, or json.loads, can hold.      *)
(***************************************************************************)
PyNone == [t |-> "none"]

PyNum(x) == [t |-> "num", num |-> x]

PyStr(s) == [t |-> "str", str |-> s]

PyBool(b) == [t |-> "bool", b |-> b]

PyList(xs) == [t |-> "list", items |-> xs]

\* A dict as its items in insertion order, keys unique: <<key text, value>>.
PyDict(kv) == [t |-> "dict", pairs |-> kv]

\* dict.get(key): None when the key is absent.
DictGet(d, key) ==
    IF \E i \in 1..Len(d.pairs) : d.pairs[i][1] = key
    THEN d.pairs[CHOOSE i \in 1..Len(d.pairs) : d.pairs[i][1] = key][2]
    ELSE PyNone

\* float(value): a number as it is, a bool as 1.0 or 0.0, a str by its numeral;
\* None, a list and a dict raise TypeError, a str that is no numeral ValueError.
PyFloat(v) ==
    IF v.t = "num" THEN [ok |-> TRUE, val |-> v.num]
    ELSE IF v.t = "bool" THEN [ok |-> TRUE, val |-> F(IF v.b THEN 1 ELSE 0)]
    ELSE IF v.t = "str" THEN FloatOfText(v.str)
    ELSE NoFloat

(***************************************************************************)
(* json.loads: the decoder of the standard library, on the model's         *)
(* alphabet (no backslash, so no string escapes).  A scan returns          *)
(* [ok, val, pos], pos the index after what was read.                      *)
(***************************************************************************)
\* The character at index i, "" past the end.
At(s, i) == IF i >= 1 /\ i <= Len(s) THEN s[i] ELSE ""

RECURSIVE SkipWs(_, _)
SkipWs(s, i) == IF IsSpace(At(s, i)) THEN SkipWs(s, i + 1) ELSE i

RECURSIVE DigitRunEnd(_, _)
DigitRunEnd(s, i) == IF IsDigit(At(s, i)) THEN DigitRunEnd(s, i + 1) ELSE i

StartsWith(s, i, lit) ==
    i + Len(lit) - 1 <= Len(s) /\ SubSeq(s, i, i + Len(lit) - 1) = lit

JsonFail == [ok |-> FALSE, val |-> PyNone, pos |-> 0]

JsonOk(v, p) == [ok |-> TRUE, val |-> v, pos |-> p]

\* NUMBER_RE: (-?(?:0|[1-9]\d*))(\.\d+)?([eE][-+]?\d+)?, the longest match at i.
\* The number matched from i up to p4, x its float: without fraction and
\* exponent (p4 = p2) it is int(text), which has no negative zero.
JsonNumberValue(x, p2, p4) ==
    IF p4 = p2 THEN JsonOk(PyNum(Fin(x.neg /\ x.m # 0, x.m, 0)), p4)
    ELSE JsonOk(PyNum(x), p4)

JsonNumberEnd(s, i, p2, p4) ==
    JsonNumberValue(FloatOfText(SubSeq(s, i, p4 - 1)).val, p2, p4)

\* p3: after the fraction; q: the first exponent digit, if there is an exponent.
JsonNumberExp(s, i, p2, p3, q) ==
    JsonNumberEnd(s, i, p2,
                  IF At(s, p3) \in {"e", "E"} /\ IsDigit(At(s, q))
                  THEN DigitRunEnd(s, q) ELSE p3)

JsonNumberFrac(s, i, p2, p3) ==
    JsonNumberExp(s, i, p2, p3, IF At(s, p3 + 1) \in {"+", "-"} THEN p3 + 2 ELSE p3 + 1)

\* p2: after the integer part.
JsonNumberInt(s, i, p2) ==
    JsonNumberFrac(s, i, p2,
                   IF At(s, p2) = "." /\ IsDigit(At(s, p2 + 1))
                   THEN DigitRunEnd(s, p2 + 1) ELSE p2)

\* p1: after the optional minus.
JsonNumberSigned(s, i, p1) ==
    IF ~IsDigit(At(s, p1)) THEN JsonFail
    ELSE JsonNumberInt(s, i, IF At(s, p1) = "0" THEN p1 + 1 ELSE DigitRunEnd(s, p1))

JsonNumber(s, i) == JsonNumberSigned(s, i, IF At(s, i) = "-" THEN i + 1 ELSE i)

\* A string: from the opening quote at i to the next quote.
RECURSIVE QuoteAt(_, _)
QuoteAt(s, i) == IF i > Len(s) \/ s[i] = "\"" THEN i ELSE QuoteAt(s, i + 1)

\* j: the index of the closing quote, past the end when there is none.
JsonStringTo(s, i, j) ==
    IF j <= Len(s) THEN JsonOk(PyStr(SubSeq(s, i + 1, j - 1)), j + 1) ELSE JsonFail

JsonString(s, i) == JsonStringTo(s, i, QuoteAt(s, i + 1))

\* dict[key] = value: a repeated key keeps its place and takes the new value.
DictPut(kv, key, v) ==
    IF \E i \in 1..Len(kv) : kv[i][1] = key
    THEN [i \in 1..Len(kv) |-> IF kv[i][1] = key THEN <<key, v>> ELSE kv[i]]
    ELSE Append(kv, <<key, v>>)

RECURSIVE JsonValue(_, _)
RECURSIVE JsonArrayItems(_, _, _)
RECURSIVE JsonObjectItems(_, _, _)

\* After "[" and whitespace, at j.
JsonArray(s, j) ==
    IF At(s, j) = "]" THEN JsonOk(PyList(<<>>), j + 1) ELSE JsonArrayItems(s, j, <<>>)

\* After "{" and whitespace, at j.
JsonObject(s, j) ==
    IF At(s, j) = "}" THEN JsonOk(PyDict(<<>>), j + 1) ELSE JsonObjectItems(s, j, <<>>)

\* scan_once: one JSON value starting at i (no leading whitespace).
JsonValue(s, i) ==
    IF At(s, i) = "\"" THEN JsonString(s, i)
    ELSE IF At(s, i) = "{" THEN JsonObject(s, SkipWs(s, i + 1))
    ELSE IF At(s, i) = "[" THEN JsonArray(s, SkipWs(s, i + 1))
    ELSE IF StartsWith(s, i, <<"n", "u", "l", "l">>) THEN JsonOk(PyNone, i + 4)
    ELSE IF StartsWith(s, i, <<"t", "r", "u", "e">>) THEN JsonOk(PyBool(TRUE), i + 4)
    ELSE IF StartsWith(s, i, <<"f", "a", "l", "s", "e">>) THEN JsonOk(PyBool(FALSE), i + 5)
    ELSE IF StartsWith(s, i, <<"N", "a", "N">>) THEN JsonOk(PyNum(NaN), i + 3)
    ELSE IF StartsWith(s, i, <<"I", "n", "f", "i", "n", "i", "t", "y">>)
         THEN JsonOk(PyNum(Inf(FALSE)), i + 8)
    ELSE IF StartsWith(s, i, <<"-", "I", "n", "f", "i", "n", "i", "t", "y">>)
         THEN JsonOk(PyNum(Inf(TRUE)), i + 9)
    ELSE JsonNumber(s, i)

\* The array after its item v, j the index after v and whitespace.
JsonArrayNext(s, acc, v, j) ==
    IF ~v.ok THEN JsonFail
    ELSE IF At(s, j) = "]" THEN JsonOk(PyList(Append(acc, v.val)), j + 1)
    ELSE IF At(s, j) = "," THEN JsonArrayItems(s, SkipWs(s, j + 1), Append(acc, v.val))
    ELSE JsonFail

JsonArrayItem(s, acc, v) == JsonArrayNext(s, acc, v, SkipWs(s, v.pos))

\* JSONArray after "[": value, then "," and another value, or "]".
JsonArrayItems(s, i, acc) == JsonArrayItem(s, acc, JsonValue(s, i))

\* The object after the pair key: v, j the index after v and whitespace.
JsonObjectNext(s, acc, key, v, j) ==
    IF ~v.ok THEN JsonFail
    ELSE IF At(s, j) = "}" THEN JsonOk(PyDict(DictPut(acc, key.val.str, v.val)), j + 1)
    ELSE IF At(s, j) = ","
         THEN JsonObjectItems(s, SkipWs(s, j + 1), DictPut(acc, key.val.str, v.val))
    ELSE JsonFail

JsonObjectValue(s, acc, key, v) == JsonObjectNext(s, acc, key, v, SkipWs(s, v.pos))

\* c: the index after the key and whitespace, where ":" must stand.
JsonObjectColon(s, acc, key, c) ==
    JsonObjectValue(s, acc, key,
                    IF key.ok /\ At(s, c) = ":" THEN JsonValue(s, SkipWs(s, c + 1))
                    ELSE JsonFail)

JsonObjectKey(s, acc, key) == JsonObjectColon(s, acc, key, SkipWs(s, key.pos))

\* JSONObject after "{": "key" : value, then "," and another pair, or "}".
JsonObjectItems(s, i, acc) ==
    JsonObjectKey(s, acc, IF At(s, i) = "\"" THEN JsonString(s, i) ELSE JsonFail)

\* The document's one value v: nothing but whitespace may follow it.
JsonDocument(s, v) ==
    IF v.ok /\ SkipWs(s, v.pos) = Len(s) + 1
    THEN [ok |-> TRUE, val |-> v.val]
    ELSE [ok |-> FALSE, val |-> PyNone]

\* json.loads(s): one value, whitespace around it, nothing after it; [ok, val].
JsonLoads(s) == JsonDocument(s, JsonValue(s, SkipWs(s, 1)))

(***************************************************************************)
(* routing.py: the helpers and _normalize_waypoints.  A call ends in       *)
(* [kind, err, field, seq]: kind "ok" with the coordinate sequence seq,    *)
(* kind "throw" for frappe.throw (the user-facing ValidationError) with    *)
(* the error of the taxonomy and the field it names, or kind "crash" for   *)
(* any other exception, named in err.                                      *)
(***************************************************************************)
Ok(seq) == [kind |-> "ok", err |-> "", field |-> "", seq |-> seq]

Throw(err, field) == [kind |-> "throw", err |-> err, field |-> field, seq |-> <<>>]

Crash(exc) == [kind |-> "crash", err |-> exc, field |-> "", seq |-> <<>>]

\* float(value) gave f.
FloatResult(name, f) == [ok |-> f.ok, val |-> f.val, out |-> Throw("InvalidNumber", name)]

\* _parse_float(name, value): float(value), any exception of it turned into
\* frappe.throw("Invalid {name}: ... Must be a number.").  [ok, val, out].
parse_float(name, value) == FloatResult(name, PyFloat(value))

\* _validate_lat_lon: latitude first, then longitude.
\* The range check with the longitude test left out.
ValidateLatitudeOnly(lat, lon) ==
    IF ~(FloatLe(F(-90), lat) /\ FloatLe(lat, F(90))) THEN Throw("OutOfRange", "lat")
    ELSE Ok(<<>>)

validate_lat_lon(lat, lon) ==
    IF ~(FloatLe(F(-90), lat) /\ FloatLe(lat, F(90))) THEN Throw("OutOfRange", "lat")
    ELSE IF ~(FloatLe(F(-180), lon) /\ FloatLe(lon, F(180))) THEN Throw("OutOfRange", "lon")
    ELSE Ok(<<>>)

\* The encoding with the two fields of a coordinate in the other order.
BuildLonLat(waypoints) ==
    Join([i \in 1..Len(waypoints) |->
              Repr(waypoints[i][2]) \o <<",">> \o Repr(waypoints[i][1])], <<"|">>)

\* f"{lat},{lon}" for each coordinate, joined by "|".
build_waypoints_multi(waypoints) ==
    Join([i \in 1..Len(waypoints) |->
              Repr(waypoints[i][1]) \o <<",">> \o Repr(waypoints[i][2])], <<"|">>)

\* f"{origin_lat},{origin_lon}|{dest_lat},{dest_lon}"
build_waypoints_two_point(origin_lat, origin_lon, dest_lat, dest_lon) ==
    Repr(origin_lat) \o <<",">> \o Repr(origin_lon) \o <<"|">>
    \o Repr(dest_lat) \o <<",">> \o Repr(dest_lon)

\* The element of the parsed fields la and lo, once the range check gave v.
Validated(la, lo, v) == IF v.kind # "ok" THEN v ELSE Ok(<< <<la.val, lo.val>> >>)

\* The statements every branch runs on the parsed fields of one element: a failed
\* lat parse throws first, then a failed lon parse, then the range check.
ParsedElement(la, lo) ==
    IF ~la.ok THEN la.out
    ELSE IF ~lo.ok THEN lo.out
    ELSE Validated(la, lo, validate_lat_lon(la.val, lo.val))

ParseElement(lat_raw, lon_raw) ==
    ParsedElement(parse_float("lat", lat_raw), parse_float("lon", lon_raw))

StripAll(ps) == [i \in 1..Len(ps) |-> Strip(ps[i])]

\* [x.strip() for x in part.split(",")]
Pieces(part) == StripAll(Split(part, ","))

RECURSIVE NonEmpty(_)
NonEmpty(ps) ==
    IF ps = <<>> THEN <<>>
    ELSE IF Head(ps) = <<>> THEN NonEmpty(Tail(ps))
    ELSE <<Head(ps)>> \o NonEmpty(Tail(ps))

\* [p.strip() for p in raw.split("|") if p.strip()]
Parts(raw) == NonEmpty(StripAll(Split(raw, "|")))

\* One segment of the delimited form, split into pieces: the piece count,
\* then the element.
ParsePieces(pieces) ==
    IF Len(pieces) # 2 THEN Throw("InvalidFormat", "")
    ELSE ParseElement(PyStr(pieces[1]), PyStr(pieces[2]))

ParsePart(part) == ParsePieces(Pieces(part))

RECURSIVE NormalizeParts(_, _)

\* The loop going on after a failed segment, which it leaves out.
PartDoneSkipping(parts, normalized, r) ==
    IF r.kind # "ok" THEN NormalizeParts(Tail(parts), normalized)
    ELSE NormalizeParts(Tail(parts), normalized \o r.seq)

\* The first segment gave r: a failure ends the loop.
PartDone(parts, normalized, r) ==
    IF r.kind # "ok" THEN r ELSE NormalizeParts(Tail(parts), normalized \o r.seq)

\* The loop over the segments.
NormalizeParts(parts, normalized) ==
    IF parts = <<>> THEN Ok(normalized)
    ELSE PartDone(parts, normalized, ParsePart(Head(parts)))

\* item[i] (i from 0) of a value that is no dict: a list or a str by position
\* (IndexError past the end), anything else is not subscriptable (TypeError).
Subscript(item, i) ==
    IF item.t = "list"
    THEN (IF i < Len(item.items) THEN [ok |-> TRUE, val |-> item.items[i + 1], exc |-> ""]
          ELSE [ok |-> FALSE, val |-> PyNone, exc |-> "IndexError"])
    ELSE IF item.t = "str"
    THEN (IF i < Len(item.str)
          THEN [ok |-> TRUE, val |-> PyStr(<<item.str[i + 1]>>), exc |-> ""]
          ELSE [ok |-> FALSE, val |-> PyNone, exc |-> "IndexError"])
    ELSE [ok |-> FALSE, val |-> PyNone, exc |-> "TypeError"]

\* The list/tuple branch in statement order: item[0] (i0), its parse (la),
\* item[1] (i1), its parse, then the range check.
ParseSubscripted(i0, la, i1) ==
    IF ~i0.ok THEN Crash(i0.exc)
    ELSE IF ~la.ok THEN la.out
    ELSE IF ~i1.ok THEN Crash(i1.exc)
    ELSE ParsedElement(la, parse_float("lon", i1.val))

ParsePair(item, i0) ==
    ParseSubscripted(i0, parse_float("lat", i0.val), Subscript(item, 1))

\* One element of the list form.
ParseItem(item) ==
    IF item.t = "dict"
    THEN ParseElement(DictGet(item, <<"l", "a", "t">>), DictGet(item, <<"l", "o", "n">>))
    ELSE ParsePair(item, Subscript(item, 0))

RECURSIVE NormalizeItems(_, _)

\* The loop putting each coordinate in front of the ones before it.
ItemDonePrepending(items, normalized2, r) ==
    IF r.kind # "ok" THEN r ELSE NormalizeItems(Tail(items), r.seq \o normalized2)

ItemDone(items, normalized2, r) ==
    IF r.kind # "ok" THEN r ELSE NormalizeItems(Tail(items), normalized2 \o r.seq)

NormalizeItems(items, normalized2) ==
    IF items = <<>> THEN Ok(normalized2)
    ELSE ItemDone(items, normalized2, ParseItem(Head(items)))

\* bool(value), for "waypoints or []".
Truthy(v) ==
    CASE v.t = "none" -> FALSE
      [] v.t = "bool" -> v.b
      [] v.t = "num" -> ~(v.num.kind = "fin" /\ v.num.m = 0)
      [] v.t = "str" -> v.str # <<>>
      [] v.t = "list" -> v.items # <<>>
      [] v.t = "dict" -> v.pairs # <<>>

\* The list/dict forms (after the string forms).
NormalizeStructured(waypoints) ==
    IF waypoints.t = "dict"
    THEN ParseElement(DictGet(waypoints, <<"l", "a", "t">>),
                      DictGet(waypoints, <<"l", "o", "n">>))
    ELSE IF ~Truthy(waypoints) THEN Ok(<<>>)
    ELSE IF waypoints.t = "list" THEN NormalizeItems(waypoints.items, <<>>)
    ELSE Crash("TypeError")

\* json.loads(raw) gave loaded.
NormalizeLoaded(loaded) ==
    IF ~loaded.ok THEN Throw("InvalidFormat", "") ELSE NormalizeStructured(loaded.val)

\* The string forms, raw the stripped text.
NormalizeText(raw) ==
    IF raw = <<>> THEN Ok(<<>>)
    ELSE IF raw[1] \in {"[", "{"} THEN NormalizeLoaded(JsonLoads(raw))
    ELSE NormalizeParts(Parts(raw), <<>>)

normalize_waypoints(waypoints) ==
    IF waypoints.t = "none" THEN Ok(<<>>)
    ELSE IF waypoints.t = "str" THEN NormalizeText(Strip(waypoints.str))
    ELSE NormalizeStructured(waypoints)

(***************************************************************************)
(* The callers' inputs.  A waypoint set is written down as a sequence of   *)
(* elements, each a sequence of field numerals (two for a well-formed      *)
(* element), and handed over in one of the shapes the docstring of         *)
(* _normalize_waypoints lists.                                             *)
(***************************************************************************)
MaxWaypoints == 2

FieldTexts ==
    {<<"1", "2", ".", "9">>, <<"-", "1", "8", "0">>, <<"1", "8", "1">>, <<"a", "b", "c">>}

Elements ==
    {<<a, b>> : a \in FieldTexts, b \in FieldTexts}
    \cup {<<>>, << <<"1", "2", ".", "9">> >>,
          << <<"1", "2", ".", "9">>, <<"-", "1", "8", "0">>, <<"a", "b", "c">> >>}

RECURSIVE SeqsUpTo(_, _)
SeqsUpTo(S, n) ==
    IF n = 0 THEN {<<>>}
    ELSE SeqsUpTo(S, n - 1)
         \cup {Append(q, e) : q \in {r \in SeqsUpTo(S, n - 1) : Len(r) = n - 1}, e \in S}

ListShapes == {"pipe", "pipe_spaced", "json_pairs", "json_dicts", "pairs", "dicts"}

SingleShapes == {"single", "json_single"}

KeyNames == << <<"l", "a", "t">>, <<"l", "o", "n">>, <<"a", "l", "t">> >>

Quote(s) == <<"\"">> \o s \o <<"\"">>

\* A field in JSON text: the numeral itself when JSON reads it as a number,
\* a JSON string otherwise.
JsonField(f) == IF JsonLoads(f).ok THEN f ELSE Quote(f)

\* A field in memory: a number when it is a numeral, a str otherwise.
PyFieldOf(f, x) == IF x.ok THEN PyNum(x.val) ELSE PyStr(f)

PyField(f) == PyFieldOf(f, FloatOfText(f))

JsonPair(el) ==
    <<"[">> \o Join([i \in 1..Len(el) |-> JsonField(el[i])], <<",">>) \o <<"]">>

JsonMapping(el) ==
    <<"{">>
    \o Join([i \in 1..Len(el) |-> Quote(KeyNames[i]) \o <<":", " ">> \o JsonField(el[i])],
            <<",">>)
    \o <<"}">>

PyObject(el) == PyDict([i \in 1..Len(el) |-> <<KeyNames[i], PyField(el[i])>>])

\* The waypoint set els in the given shape.
Render(sh, els) ==
    CASE sh = "pipe" ->
           PyStr(Join([i \in 1..Len(els) |-> Join(els[i], <<",">>)], <<"|">>))
      [] sh = "pipe_spaced" ->
           PyStr(<<" ">>
                 \o Join([i \in 1..Len(els) |-> Join(els[i], <<" ", ",">>)], <<" ", "|", " ">>)
                 \o <<"|">>)
      [] sh = "json_pairs" ->
           PyStr(<<"[">> \o Join([i \in 1..Len(els) |-> JsonPair(els[i])], <<",", " ">>)
                 \o <<"]">>)
      [] sh = "json_dicts" ->
           PyStr(<<"[">> \o Join([i \in 1..Len(els) |-> JsonMapping(els[i])], <<",">>)
                 \o <<"]">>)
      [] sh = "pairs" ->
           PyList([i \in 1..Len(els) |-> PyList([j \in 1..Len(els[i]) |-> PyField(els[i][j])])])
      [] sh = "dicts" -> PyList([i \in 1..Len(els) |-> PyObject(els[i])])
      [] sh = "single" -> PyObject(els[1])
      [] sh = "json_single" -> PyStr(JsonMapping(els[1]))

\* Inputs outside that scheme: absent and blank input, broken JSON text, scalars,
\* lists of scalars and of strings, non-finite and exponent numerals, a nested field.
ExtraInputs ==
    << PyNone,
       PyStr(<<>>),
       PyStr(<<" ", " ">>),
       PyStr(<<"[">>),
       PyStr(<<"[", "[", "1", ",", "2", "]", "]", "x">>),
       PyStr(<<"{", "\"", "l", "a", "t", "\"", ":", "1">>),
       PyStr(<<"[", "[", "-", "0", ",", "0", ".", "5", "0", "]", "]">>),
       PyStr(<<"[", "[", "N", "a", "N", ",", "1", "]", "]">>),
       PyStr(<<"[", "n", "u", "l", "l", "]">>),
       PyStr(<<"n", "a", "n", ",", "0">>),
       PyStr(<<"-", "0", ",", "0", ".", "5", "0">>),
       PyStr(<<"1", "e", "-", "5", ",", "+", "7", ".", "2", "5">>),
       PyStr(<<"9", "0", ",", "1", "8", "0", "|", "-", "9", "0", ".", "0", ",", "I", "N", "F">>),
       PyStr(<<"5">>),
       PyNum(F(5)),
       PyNum(F(0)),
       PyBool(TRUE),
       PyList(<<PyNum(F(5))>>),
       PyList(<<PyNone>>),
       PyList(<<PyStr(<<"1", "2">>)>>),
       PyList(<<PyStr(<<"1">>)>>),
       PyList(<<PyStr(<<>>)>>),
       PyList(<<PyList(<<PyBool(TRUE), PyStr(<<" ", "7", " ">>)>>)>>),
       PyDict(<< <<KeyNames[1], PyList(<<PyNum(F(1))>>)>>, <<KeyNames[2], PyNum(F(2))>> >>) >>

(***************************************************************************)
(* The endpoints.  A call runs up to requests.get and, when it gets there, *)
(* waits for the provider; a step is [pc, outcome, requests, key_lookups]. *)
(* A call ends in [kind, err, status, payload, result]: kind "ok" with the *)
(* returned result, kind "throw" for frappe.throw with the error of the    *)
(* taxonomy (UpstreamError with the status code and the error payload),    *)
(* kind "crash" for any other exception, named in err.                     *)
(***************************************************************************)
Returned(result) ==
    [kind |-> "ok", err |-> "", status |-> 0, payload |-> PyNone, result |-> result]

Failed(err) ==
    [kind |-> "throw", err |-> err, status |-> 0, payload |-> PyNone, result |-> PyNone]

UpstreamError(status, payload) ==
    [kind |-> "throw", err |-> "UpstreamError", status |-> status, payload |-> payload,
     result |-> PyNone]

Raised(exc) ==
    [kind |-> "crash", err |-> exc, status |-> 0, payload |-> PyNone, result |-> PyNone]

\* The failure r of _parse_float, _validate_lat_lon or _normalize_waypoints,
\* propagating out of the endpoint.
Propagated(r) == IF r.kind = "throw" THEN Failed(r.err) ELSE Raised(r.err)

NoOutcome == [kind |-> "none"]

Done(out, lookups) ==
    [pc |-> "done", outcome |-> out, requests |-> <<>>, key_lookups |-> lookups]

Send(request, lookups) ==
    [pc |-> "waiting", outcome |-> NoOutcome, requests |-> <<request>>,
     key_lookups |-> lookups]

RoutingTimeout == 20

GeojsonTimeout == 25

AutocompleteTimeout == 8

MinTextLen == 3

MaxSuggestions == 10

\* (frappe.conf.get("geoapify_api_key") or "").strip(), then the check.
ConfiguredKey(key) ==
    IF key = <<>> THEN [ok |-> FALSE, key |-> <<>>, lookups |-> 1]
    ELSE [ok |-> TRUE, key |-> key, lookups |-> 1]

\* _get_geoapify_key(explicit_key): [ok, key, lookups], ~ok for the
\* frappe.throw("Geoapify API key missing. ...").
get_geoapify_key(explicit_key, conf) ==
    IF Truthy(explicit_key) THEN [ok |-> TRUE, key |-> Strip(explicit_key.str), lookups |-> 0]
    ELSE ConfiguredKey(Strip(IF Truthy(conf) THEN conf.str ELSE <<>>))

\* int(s) for a str: whitespace stripped, an optional sign, digits.
IntOfDigits(neg, d) ==
    IF d # <<>> /\ AllDigits(d)
    THEN [ok |-> TRUE, val |-> IF neg THEN 0 - DigitsVal(d) ELSE DigitsVal(d), exc |-> ""]
    ELSE [ok |-> FALSE, val |-> 0, exc |-> "ValueError"]

IntOfText(t) ==
    IntOfDigits(t # <<>> /\ Head(t) = "-",
                IF t # <<>> /\ Head(t) \in {"+", "-"} THEN Tail(t) ELSE t)

\* int(value): a str by its digits, a finite float truncated; nan and inf raise,
\* and so does any value that is no number.
PyInt(v) ==
    IF v.t = "str" THEN IntOfText(Strip(v.str))
    ELSE IF v.t = "bool" THEN [ok |-> TRUE, val |-> IF v.b THEN 1 ELSE 0, exc |-> ""]
    ELSE IF v.t = "num" /\ v.num.kind = "fin"
    THEN [ok |-> TRUE,
          val |-> (IF v.num.neg THEN -1 ELSE 1) * (v.num.m \div Pow10(v.num.k)),
          exc |-> ""]
    ELSE IF v.t = "num" THEN [ok |-> FALSE, val |-> 0, exc |-> "ValueError"]
    ELSE [ok |-> FALSE, val |-> 0, exc |-> "TypeError"]

\* The params dict of the routing request; max_speed is None when the key is
\* not set.
RoutingParams(waypoints_text, format, a, key, max_speed) ==
    [waypoints |-> waypoints_text, mode |-> "heavy_truck", format |-> format,
     units |-> a.units, traffic |-> a.traffic, apiKey |-> key, max_speed |-> max_speed]

RoutingRequest(params, timeout) ==
    [url |-> "https://api.geoapify.com/v1/routing", params |-> params, timeout |-> timeout]

\* "if max_speed is not None: params["max_speed"] = int(max_speed)", then the
\* request; ms is int(max_speed).
WithMaxSpeed(waypoints_text, format, timeout, a, key, ms) ==
    IF a.max_speed.t = "none"
    THEN Send(RoutingRequest(RoutingParams(waypoints_text, format, a, key.key, PyNone),
                             timeout), key.lookups)
    ELSE IF ~ms.ok THEN Done(Raised(ms.exc), key.lookups)
    ELSE Send(RoutingRequest(RoutingParams(waypoints_text, format, a, key.key,
                                           PyNum(F(ms.val))), timeout), key.lookups)

(***************************************************************************)
(* heavy_truck_distance                                                    *)
(***************************************************************************)
DistanceKeyed(a, olat, olon, dlat, dlon, key) ==
    IF ~key.ok THEN Done(Failed("MissingCredential"), key.lookups)
    ELSE WithMaxSpeed(build_waypoints_two_point(olat.val, olon.val, dlat.val, dlon.val),
                      "json", RoutingTimeout, a, key, PyInt(a.max_speed))

DistanceValidated(a, conf, olat, olon, dlat, dlon, vo, vd) ==
    IF vo.kind # "ok" THEN Done(Propagated(vo), 0)
    ELSE IF vd.kind # "ok" THEN Done(Propagated(vd), 0)
    ELSE DistanceKeyed(a, olat, olon, dlat, dlon, get_geoapify_key(a.api_key, conf))

DistanceParsed(a, conf, olat, olon, dlat, dlon) ==
    IF ~olat.ok THEN Done(Propagated(olat.out), 0)
    ELSE IF ~olon.ok THEN Done(Propagated(olon.out), 0)
    ELSE IF ~dlat.ok THEN Done(Propagated(dlat.out), 0)
    ELSE IF ~dlon.ok THEN Done(Propagated(dlon.out), 0)
    ELSE DistanceValidated(a, conf, olat, olon, dlat, dlon,
                           validate_lat_lon(olat.val, olon.val),
                           validate_lat_lon(dlat.val, dlon.val))

\* The call up to requests.get: the four parses, the two range checks, the key,
\* the params.
heavy_truck_distance(a, conf) ==
    DistanceParsed(a, conf,
                   parse_float("origin_lat", a.origin_lat),
                   parse_float("origin_lon", a.origin_lon),
                   parse_float("dest_lat", a.dest_lat),
                   parse_float("dest_lon", a.dest_lon))

\* The keys the code reads in the replies.
KeyText ==
    [message |-> <<"m", "e", "s", "s", "a", "g", "e">>,
     results |-> <<"r", "e", "s", "u", "l", "t", "s">>,
     features |-> <<"f", "e", "a", "t", "u", "r", "e", "s">>,
     properties |-> <<"p", "r", "o", "p", "e", "r", "t", "i", "e", "s">>,
     distance |-> <<"d", "i", "s", "t", "a", "n", "c", "e">>,
     distance_units |-> <<"d", "i", "s", "t", "a", "n", "c", "e", "_", "u", "n", "i", "t", "s">>,
     time |-> <<"t", "i", "m", "e">>,
     toll |-> <<"t", "o", "l", "l">>,
     ferry |-> <<"f", "e", "r", "r", "y">>,
     mode |-> <<"m", "o", "d", "e">>,
     units |-> <<"u", "n", "i", "t", "s">>,
     formatted |-> <<"f", "o", "r", "m", "a", "t", "t", "e", "d">>,
     lat |-> <<"l", "a", "t">>,
     lon |-> <<"l", "o", "n">>,
     place_id |-> <<"p", "l", "a", "c", "e", "_", "i", "d">>]

\* "try: error_payload = response.json() except Exception: {"message": text}",
\* then the throw with the status code; j is json.loads of the body.
ErrorPayload(r, j) ==
    UpstreamError(r.status_code,
                  IF j.ok THEN j.val ELSE PyDict(<< <<KeyText.message, PyStr(r.text)>> >>))

\* results[0], or the exception of the subscript or of the .get() after it.
First(xs) ==
    IF xs.t = "list" THEN [ok |-> TRUE, val |-> xs.items[1], exc |-> ""]
    ELSE IF xs.t = "dict" THEN [ok |-> FALSE, val |-> PyNone, exc |-> "KeyError"]
    ELSE IF xs.t = "str" THEN [ok |-> TRUE, val |-> PyStr(<<xs.str[1]>>), exc |-> ""]
    ELSE [ok |-> FALSE, val |-> PyNone, exc |-> "TypeError"]

DistanceRoute(data, route0) ==
    IF ~route0.ok THEN Raised(route0.exc)
    ELSE IF route0.val.t # "dict" THEN Raised("AttributeError")
    ELSE Returned([distance |-> DictGet(route0.val, KeyText.distance),
                   distance_units |-> DictGet(route0.val, KeyText.distance_units),
                   time_seconds |-> DictGet(route0.val, KeyText.time),
                   mode |-> "heavy_truck",
                   raw |-> [properties |-> DictGet(data, KeyText.properties),
                            route |-> [distance |-> DictGet(route0.val, KeyText.distance),
                                       distance_units |->
                                           DictGet(route0.val, KeyText.distance_units),
                                       time |-> DictGet(route0.val, KeyText.time),
                                       toll |-> DictGet(route0.val, KeyText.toll),
                                       ferry |-> DictGet(route0.val, KeyText.ferry)]]])

\* results = data.get("results") or []
DistanceResults(data, results) ==
    IF ~Truthy(results) THEN Failed("EmptyResult") ELSE DistanceRoute(data, First(results))

\* data = response.json(), j its json.loads.
DistanceData(j) ==
    IF ~j.ok THEN Raised("JSONDecodeError")
    ELSE IF j.val.t # "dict" THEN Raised("AttributeError")
    ELSE DistanceResults(j.val, DictGet(j.val, KeyText.results))

\* The call from requests.get on, r what it came back with.
distance_response(r) ==
    IF r.kind = "error" THEN Failed("UpstreamUnavailable")
    ELSE IF r.status_code # 200 THEN ErrorPayload(r, JsonLoads(r.text))
    ELSE DistanceData(JsonLoads(r.text))

(***************************************************************************)
(* heavy_truck_route_geojson                                               *)
(***************************************************************************)
\* The count check letting a single waypoint through.
RouteNormalizedOneEnough(a, key, waypoint_list) ==
    IF waypoint_list.kind # "ok" THEN Done(Propagated(waypoint_list), key.lookups)
    ELSE IF Len(waypoint_list.seq) < 1
         THEN Done(Failed("InsufficientWaypoints"), key.lookups)
    ELSE WithMaxSpeed(build_waypoints_multi(waypoint_list.seq), "geojson",
                      GeojsonTimeout, a, key, PyInt(a.max_speed))

RouteNormalized(a, key, waypoint_list) ==
    IF waypoint_list.kind # "ok" THEN Done(Propagated(waypoint_list), key.lookups)
    ELSE IF Len(waypoint_list.seq) < 2
         THEN Done(Failed("InsufficientWaypoints"), key.lookups)
    ELSE WithMaxSpeed(build_waypoints_multi(waypoint_list.seq), "geojson",
                      GeojsonTimeout, a, key, PyInt(a.max_speed))

RouteKeyed(a, key) ==
    IF ~key.ok THEN Done(Failed("MissingCredential"), key.lookups)
    ELSE RouteNormalized(a, key, normalize_waypoints(a.waypoints))

\* The call up to requests.get: the key, the normalization, the count, the params.
heavy_truck_route_geojson(a, conf) == RouteKeyed(a, get_geoapify_key(a.api_key, conf))

\* properties = features[0].get("properties") or {}
RouteSummary(feature_collection, properties) ==
    IF properties.t # "dict" THEN Raised("AttributeError")
    ELSE Returned([summary |-> [distance |-> DictGet(properties, KeyText.distance),
                                distance_units |-> DictGet(properties, KeyText.distance_units),
                                time_seconds |-> DictGet(properties, KeyText.time),
                                mode |-> DictGet(properties, KeyText.mode),
                                units |-> DictGet(properties, KeyText.units),
                                toll |-> DictGet(properties, KeyText.toll)],
                   geojson |-> feature_collection])

RouteProperties(feature_collection, properties) ==
    RouteSummary(feature_collection, IF Truthy(properties) THEN properties ELSE PyDict(<<>>))

RouteFeature(feature_collection, feature0) ==
    IF ~feature0.ok THEN Raised(feature0.exc)
    ELSE IF feature0.val.t # "dict" THEN Raised("AttributeError")
    ELSE RouteProperties(feature_collection, DictGet(feature0.val, KeyText.properties))

\* features = feature_collection.get("features") or []
RouteFeatures(feature_collection, features) ==
    IF ~Truthy(features) THEN Failed("EmptyResult")
    ELSE RouteFeature(feature_collection, First(features))

RouteData(j) ==
    IF ~j.ok THEN Raised("JSONDecodeError")
    ELSE IF j.val.t # "dict" THEN Raised("AttributeError")
    ELSE RouteFeatures(j.val, DictGet(j.val, KeyText.features))

\* The call from requests.get on.
route_response(r) ==
    IF r.kind = "error" THEN Failed("UpstreamUnavailable")
    ELSE IF r.status_code # 200 THEN ErrorPayload(r, JsonLoads(r.text))
    ELSE RouteData(JsonLoads(r.text))

(***************************************************************************)
(* geoapify.py: autocomplete                                               *)
(***************************************************************************)
AutocompleteRequest(text, api_key) ==
    [url |-> "https://api.geoapify.com/v1/geocode/autocomplete",
     params |-> [text |-> text, apiKey |-> api_key],
     timeout |-> AutocompleteTimeout]

\* The key read and required before the length of the text is looked at.
AutocompleteKeyFirst(a, settings) ==
    IF ~Truthy(settings) THEN Done(Failed("MissingCredential"), 1)
    ELSE IF ~Truthy(a.text) \/ Len(a.text.str) < MinTextLen THEN Done(Returned(<<>>), 1)
    ELSE Send(AutocompleteRequest(a.text.str, settings.str), 1)

\* The request issued before the key is required.
AutocompleteSendsFirst(a, settings) ==
    IF ~Truthy(a.text) \/ Len(a.text.str) < MinTextLen THEN Done(Returned(<<>>), 0)
    ELSE IF ~Truthy(settings)
         THEN [pc |-> "done", outcome |-> Failed("MissingCredential"),
               requests |-> <<AutocompleteRequest(a.text.str, <<>>)>>, key_lookups |-> 1]
    ELSE Send(AutocompleteRequest(a.text.str, settings.str), 1)

\* The call up to requests.get: the short-text return, the key of the settings
\* document, the request.
autocomplete(a, settings) ==
    IF ~Truthy(a.text) \/ Len(a.text.str) < MinTextLen THEN Done(Returned(<<>>), 0)
    ELSE IF ~Truthy(settings) THEN Done(Failed("MissingCredential"), 1)
    ELSE Send(AutocompleteRequest(a.text.str, settings.str), 1)

\* f["properties"].get(...) of one feature: the exception it raises, "" for none.
FeatureError(f) ==
    IF f.t # "dict" THEN "TypeError"
    ELSE IF \A i \in 1..Len(f.pairs) : f.pairs[i][1] # KeyText.properties THEN "KeyError"
    ELSE IF DictGet(f, KeyText.properties).t # "dict" THEN "AttributeError"
    ELSE ""

Suggestion(properties) ==
    [label |-> DictGet(properties, KeyText.formatted), lat |-> DictGet(properties, KeyText.lat),
     lon |-> DictGet(properties, KeyText.lon), place_id |-> DictGet(properties, KeyText.place_id)]

\* The comprehension over features[:10]: the first feature that raises ends it.
Suggestions(fs) ==
    IF \E i \in 1..Len(fs) : FeatureError(fs[i]) # ""
    THEN Raised(FeatureError(fs[CHOOSE i \in 1..Len(fs) :
                                    /\ FeatureError(fs[i]) # ""
                                    /\ \A j \in 1..(i - 1) : FeatureError(fs[j]) = ""]))
    ELSE Returned([i \in 1..Len(fs) |-> Suggestion(DictGet(fs[i], KeyText.properties))])

\* features[:10] of r.json().get("features", []): the default only for a missing
\* key; a value that cannot be sliced raises.
AutocompleteFeatures(data, features) ==
    IF \A i \in 1..Len(data.pairs) : data.pairs[i][1] # KeyText.features THEN Returned(<<>>)
    ELSE IF features.t = "list"
         THEN Suggestions(SubSeq(features.items, 1,
                                 IF Len(features.items) < MaxSuggestions
                                 THEN Len(features.items) ELSE MaxSuggestions))
    ELSE IF features.t = "str" /\ features.str = <<>> THEN Returned(<<>>)
    ELSE Raised("TypeError")

AutocompleteData(j) ==
    IF ~j.ok THEN Raised("JSONDecodeError")
    ELSE IF j.val.t # "dict" THEN Raised("AttributeError")
    ELSE AutocompleteFeatures(j.val, DictGet(j.val, KeyText.features))

\* The call from requests.get on: nothing catches the transport error, and
\* raise_for_status() raises HTTPError for 400 to 599.
autocomplete_response(r) ==
    IF r.kind = "error" THEN Raised("RequestException")
    ELSE IF r.status_code >= 400 /\ r.status_code < 600 THEN Raised("HTTPError")
    ELSE AutocompleteData(JsonLoads(r.text))

(***************************************************************************)
(* State.  The first group is one application of the normalizer and of the *)
(* encoder to its result; the second is one site with its configuration    *)
(* and the endpoint call in progress.                                      *)
(***************************************************************************)
VARIABLES
    els,            \* the waypoint set the input was written from
    shape,          \* the shape it was handed over in ("extra": see ExtraInputs)
    waypoints,      \* the argument of _normalize_waypoints
    npc,            \* "start", "normalized", "encoded", "renormalized"
    normalized,     \* _normalize_waypoints(waypoints)
    wire,           \* _build_waypoints_multi(normalized)
    renormalized,   \* _normalize_waypoints(wire)
    conf_key,       \* frappe.conf["geoapify_api_key"]
    settings_key,   \* the geoapify_key of the Geoapify Settings document
    pc,             \* "idle", "waiting" (inside requests.get), "done"
    op,             \* the endpoint called
    args,           \* its arguments
    requests,       \* the outbound requests of the call, in order
    key_lookups,    \* how often the call read the configured key
    response,       \* what requests.get came back with
    outcome         \* how the call ended

nvars == <<els, shape, waypoints, npc, normalized, wire, renormalized>>

evars == <<conf_key, settings_key, pc, op, args, requests, key_lookups, response, outcome>>

vars == <<els, shape, waypoints, npc, normalized, wire, renormalized,
          conf_key, settings_key, pc, op, args, requests, key_lookups, response, outcome>>

NoResponse == [kind |-> "none"]

NoArgs == [none |-> TRUE]

EndpointsIdle ==
    /\ pc = "idle" /\ op = "none" /\ args = NoArgs /\ requests = <<>>
    /\ key_lookups = 0 /\ response = NoResponse /\ outcome = NoOutcome

NormalizerOff ==
    /\ els = <<>> /\ shape = "none" /\ waypoints = PyNone /\ npc = "off"
    /\ normalized = Ok(<<>>) /\ wire = <<>> /\ renormalized = Ok(<<>>)

(***************************************************************************)
(* The normalizer applied to every input of the bounded sets.              *)
(***************************************************************************)
InitNorm ==
    /\ \/ \E sh \in ListShapes, e \in SeqsUpTo(Elements, MaxWaypoints) :
              els = e /\ shape = sh /\ waypoints = Render(sh, e)
       \/ \E sh \in SingleShapes, e \in Elements :
              els = <<e>> /\ shape = sh /\ waypoints = Render(sh, <<e>>)
       \/ \E i \in 1..Len(ExtraInputs) :
              els = <<>> /\ shape = "extra" /\ waypoints = ExtraInputs[i]
    /\ npc = "start"
    /\ normalized = Ok(<<>>) /\ wire = <<>> /\ renormalized = Ok(<<>>)
    /\ conf_key = PyNone /\ settings_key = PyNone
    /\ EndpointsIdle

Normalize ==
    /\ npc = "start"
    /\ normalized' = normalize_waypoints(waypoints)
    /\ npc' = "normalized"
    /\ UNCHANGED <<els, shape, waypoints, wire, renormalized>>
    /\ UNCHANGED evars

Encode ==
    /\ npc = "normalized" /\ normalized.kind = "ok"
    /\ wire' = build_waypoints_multi(normalized.seq)
    /\ npc' = "encoded"
    /\ UNCHANGED <<els, shape, waypoints, normalized, renormalized>>
    /\ UNCHANGED evars

Renormalize ==
    /\ npc = "encoded"
    /\ renormalized' = normalize_waypoints(PyStr(wire))
    /\ npc' = "renormalized"
    /\ UNCHANGED <<els, shape, waypoints, normalized, wire>>
    /\ UNCHANGED evars

NextNorm == Normalize \/ Encode \/ Renormalize

SpecNorm == InitNorm /\ [][NextNorm]_vars

(***************************************************************************)
(* The endpoints' callers, the site configuration and the provider.        *)
(***************************************************************************)
ApiKeys == {PyNone, PyStr(<<>>), PyStr(<<" ", " ">>), PyStr(<<" ", "K", "1">>)}

ConfKeys == {PyNone, PyStr(<<" ">>), PyStr(<<"C", "K", " ">>)}

SettingsKeys == {PyNone, PyStr(<<" ">>), PyStr(<<"S", "K">>)}

MaxSpeeds == {PyNone, PyStr(<<"8", "0">>), PyStr(<<"f", "a", "s", "t">>)}

RawCoords == {PyStr(<<"1", "2", ".", "9">>), PyStr(<<"a", "b", "c">>), PyNum(F(-180))}

DistanceArgs ==
    [origin_lat : RawCoords, origin_lon : RawCoords, dest_lat : RawCoords,
     dest_lon : RawCoords, units : {"metric"}, api_key : ApiKeys,
     traffic : {"free_flow"}, max_speed : MaxSpeeds]

RouteElements ==
    {<< <<"1", "2", ".", "9">>, <<"-", "1", "8", "0">> >>,
     << <<"a", "b", "c">>, <<"1", "2", ".", "9">> >>}

RouteWaypoints ==
    {Render(sh, e) : sh \in {"pipe", "json_dicts", "pairs"},
                     e \in SeqsUpTo(RouteElements, MaxWaypoints)}
    \cup {Render(sh, <<e>>) : sh \in SingleShapes, e \in RouteElements}
    \cup {PyNone, PyStr(<<" ">>)}

RouteArgs ==
    [waypoints : RouteWaypoints, units : {"metric"}, api_key : ApiKeys,
     traffic : {"free_flow"}, max_speed : MaxSpeeds]

AutocompleteArgs ==
    [text : {PyNone, PyStr(<<>>), PyStr(<<"a", "b">>), PyStr(<<"a", "b", "c">>),
             PyStr(<<"a", "b", "c", "d">>)}]

\* The provider's serializer, for the bodies below.
RECURSIVE JsonDumps(_)
JsonDumps(v) ==
    CASE v.t = "none" -> <<"n", "u", "l", "l">>
      [] v.t = "bool" -> IF v.b THEN <<"t", "r", "u", "e">> ELSE <<"f", "a", "l", "s", "e">>
      [] v.t = "num" -> Repr(v.num)
      [] v.t = "str" -> Quote(v.str)
      [] v.t = "list" ->
           <<"[">> \o Join([i \in 1..Len(v.items) |-> JsonDumps(v.items[i])], <<",", " ">>)
           \o <<"]">>
      [] v.t = "dict" ->
           <<"{">>
           \o Join([i \in 1..Len(v.pairs) |->
                        Quote(v.pairs[i][1]) \o <<":", " ">> \o JsonDumps(v.pairs[i][2])],
                   <<",", " ">>)
           \o <<"}">>

Route(distance) ==
    PyDict(<< <<KeyText.distance, PyNum(F(distance))>>, <<KeyText.time, PyNum(Fin(FALSE, 605, 1))>>,
              <<KeyText.toll, PyBool(FALSE)>> >>)

Place(id) ==
    PyDict(<< <<KeyText.properties,
                PyDict(<< <<KeyText.formatted, PyStr(<<"A">>)>>, <<KeyText.lat, PyNum(Fin(FALSE, 129, 1))>>,
                          <<KeyText.place_id, PyStr(<<Digits[(id % 10) + 1]>>)>> >>)>> >>)

\* An error document, text that is no JSON, and JSON that is no object.
OtherBodies ==
    {JsonDumps(PyDict(<< <<KeyText.message, PyStr(<<"n", "o">>)>> >>)),
     <<"o", "o", "p", "s">>,
     <<"[", "]">>}

DistanceBodies ==
    {JsonDumps(PyDict(<< <<KeyText.results, PyList(<<Route(1200), Route(900)>>)>>,
                         <<KeyText.properties, PyDict(<< <<KeyText.mode, PyStr(<<"t">>)>> >>)>> >>)),
     JsonDumps(PyDict(<< <<KeyText.results, PyList(<<>>)>> >>)),
     JsonDumps(PyDict(<< <<KeyText.results, PyNone>> >>))}

RouteBodies ==
    {JsonDumps(PyDict(<< <<KeyText.features,
                           PyList(<<PyDict(<< <<KeyText.properties, Route(1200)>> >>),
                                    PyDict(<< <<KeyText.properties, Route(900)>> >>)>>)>> >>)),
     JsonDumps(PyDict(<< <<KeyText.features, PyList(<<PyDict(<<>>)>>)>> >>)),
     JsonDumps(PyDict(<< <<KeyText.features, PyList(<<>>)>> >>))}

AutocompleteBodies ==
    {JsonDumps(PyDict(<< <<KeyText.features, PyList(<<Place(1)>>)>> >>)),
     JsonDumps(PyDict(<< <<KeyText.features, PyList([i \in 1..(MaxSuggestions + 1) |-> Place(i)])>> >>)),
     JsonDumps(PyDict(<< <<KeyText.features, PyList(<<PyDict(<<>>)>>)>> >>))}

Statuses == {200, 204, 403}

TransportError == [kind |-> "error", status_code |-> 0, text |-> <<>>]

Replies(bodies) ==
    {TransportError}
    \cup [kind : {"response"}, status_code : Statuses, text : bodies \cup OtherBodies]

(***************************************************************************)
(* The endpoint calls of one site.                                         *)
(***************************************************************************)
Init ==
    /\ conf_key \in ConfKeys
    /\ settings_key \in SettingsKeys
    /\ EndpointsIdle
    /\ NormalizerOff

\* The call o(a) ran up to its first return, throw or requests.get.
Begin(o, a, step) ==
    /\ op' = o
    /\ args' = a
    /\ pc' = step.pc
    /\ outcome' = step.outcome
    /\ requests' = step.requests
    /\ key_lookups' = step.key_lookups
    /\ UNCHANGED <<conf_key, settings_key, response>>
    /\ UNCHANGED nvars

\* requests.get came back with r and the call ran to its end.
Finish(r, out) ==
    /\ pc' = "done"
    /\ response' = r
    /\ outcome' = out
    /\ UNCHANGED <<conf_key, settings_key, op, args, requests, key_lookups>>
    /\ UNCHANGED nvars

CallDistance ==
    /\ pc = "idle"
    /\ \E a \in DistanceArgs :
           Begin("heavy_truck_distance", a, heavy_truck_distance(a, conf_key))

ReplyDistance ==
    /\ pc = "waiting" /\ op = "heavy_truck_distance"
    /\ \E r \in Replies(DistanceBodies) : Finish(r, distance_response(r))

CallRoute ==
    /\ pc = "idle"
    /\ \E a \in RouteArgs :
           Begin("heavy_truck_route_geojson", a, heavy_truck_route_geojson(a, conf_key))

ReplyRoute ==
    /\ pc = "waiting" /\ op = "heavy_truck_route_geojson"
    /\ \E r \in Replies(RouteBodies) : Finish(r, route_response(r))

CallAutocomplete ==
    /\ pc = "idle"
    /\ \E a \in AutocompleteArgs : Begin("autocomplete", a, autocomplete(a, settings_key))

ReplyAutocomplete ==
    /\ pc = "waiting" /\ op = "autocomplete"
    /\ \E r \in Replies(AutocompleteBodies) : Finish(r, autocomplete_response(r))

\* The call is over; nothing of it stays behind.
Return ==
    /\ pc = "done"
    /\ pc' = "idle" /\ op' = "none" /\ args' = NoArgs /\ requests' = <<>>
    /\ key_lookups' = 0 /\ response' = NoResponse /\ outcome' = NoOutcome
    /\ UNCHANGED <<conf_key, settings_key>>
    /\ UNCHANGED nvars

Next ==
    \/ CallDistance
    \/ ReplyDistance
    \/ CallRoute
    \/ ReplyRoute
    \/ CallAutocomplete
    \/ ReplyAutocomplete
    \/ Return

Spec == Init /\ [][Next]_vars

(***************************************************************************)
(* What the claims say of a waypoint set, read off the elements it was     *)
(* written from.                                                           *)
(***************************************************************************)
Normalized == npc \in {"normalized", "encoded", "renormalized"}

Numeric(f) == FloatOfText(f).ok

LatOf(el) == FloatOfText(el[1]).val

LonOf(el) == FloatOfText(el[2]).val

LatInRange(x) == FloatLe(F(-90), x) /\ FloatLe(x, F(90))

LonInRange(x) == FloatLe(F(-180), x) /\ FloatLe(x, F(180))

WellFormed(el) == Len(el) = 2 /\ Numeric(el[1]) /\ Numeric(el[2])

InRange(el) == LatInRange(LatOf(el)) /\ LonInRange(LonOf(el))

ValidSet(e) == \A i \in 1..Len(e) : WellFormed(e[i]) /\ InRange(e[i])

Expected(e) == [i \in 1..Len(e) |-> <<LatOf(e[i]), LonOf(e[i])>>]

PipeShapes == {"pipe", "pipe_spaced"}

DictShapes == {"dicts", "json_dicts", "single", "json_single"}

PairShapes == {"pairs", "json_pairs"}

\* The segments of the delimited form: empty ones are dropped before any check.
RECURSIVE Segments(_)
Segments(e) ==
    IF e = <<>> THEN <<>>
    ELSE IF Head(e) = <<>> THEN Segments(Tail(e))
    ELSE <<Head(e)>> \o Segments(Tail(e))

\* C1: every input ends in a coordinate sequence or in a controlled error, never
\* in an uncontrolled exception, and a failed float() is reported as InvalidNumber.
C1_NeverUncontrolled ==
    Normalized =>
        /\ normalized.kind \in {"ok", "throw"}
        /\ (shape \in DictShapes /\ \E i \in 1..Len(els) :
                Len(els[i]) < 2 \/ ~Numeric(els[i][1]) \/ ~Numeric(els[i][2]))
           => normalized.err \in {"InvalidNumber", "OutOfRange"}

\* C2 as stated: over the whole delimited string, InvalidFormat if any segment is
\* malformed, else InvalidNumber if any field is non-numeric, else OutOfRange.
C2_GlobalOrder ==
    (Normalized /\ shape \in PipeShapes) =>
        LET segs == Segments(els)
            I == 1..Len(segs)
        IN IF \E i \in I : Len(segs[i]) # 2
           THEN normalized.kind = "throw" /\ normalized.err = "InvalidFormat"
           ELSE IF \E i \in I : ~WellFormed(segs[i])
           THEN normalized.kind = "throw" /\ normalized.err = "InvalidNumber"
           ELSE IF \E i \in I : ~InRange(segs[i])
           THEN normalized.kind = "throw" /\ normalized.err = "OutOfRange"
           ELSE normalized.kind = "ok"

\* The first failing check of one segment, "" when it passes them all.
SegmentViolation(seg) ==
    IF Len(seg) # 2 THEN <<"InvalidFormat", "">>
    ELSE IF ~Numeric(seg[1]) THEN <<"InvalidNumber", "lat">>
    ELSE IF ~Numeric(seg[2]) THEN <<"InvalidNumber", "lon">>
    ELSE IF ~LatInRange(LatOf(seg)) THEN <<"OutOfRange", "lat">>
    ELSE IF ~LonInRange(LonOf(seg)) THEN <<"OutOfRange", "lon">>
    ELSE <<"", "">>

FirstViolation(segs) ==
    IF \A i \in 1..Len(segs) : SegmentViolation(segs[i])[1] = "" THEN <<"", "">>
    ELSE SegmentViolation(segs[CHOOSE i \in 1..Len(segs) :
                                   /\ SegmentViolation(segs[i])[1] # ""
                                   /\ \A j \in 1..(i - 1) : SegmentViolation(segs[j])[1] = ""])

\* C2 as amended: the checks run segment by segment in input order, and within a
\* segment piece count, then lat and lon parse, then lat and lon range; the error
\* is the first failing check of the first failing segment, and a failure
\* returns no part of the sequence.
C2_FirstViolationWins ==
    Normalized =>
        /\ normalized.kind # "ok" => normalized.seq = <<>>
        /\ shape \in PipeShapes =>
               LET v == FirstViolation(Segments(els))
               IN IF v[1] = "" THEN normalized = Ok(Expected(Segments(els)))
                  ELSE normalized = Throw(v[1], v[2])

C2_Witness ==
    /\ Normalized /\ shape = "pipe" /\ Len(els) = 2
    /\ SegmentViolation(els[1])[1] = "OutOfRange"
    /\ Len(els[2]) = 3
    /\ normalized = Throw("OutOfRange", "lat")

\* C3: a set of valid in-range coordinates normalizes, in every shape, to the
\* sequence of its elements parsed one by one, in input order.
C3_SameSequenceInEveryShape ==
    (Normalized /\ shape \in ListShapes \cup SingleShapes /\ ValidSet(els)) =>
        normalized = Ok(Expected(els))

C3_Witness ==
    /\ Normalized /\ shape = "json_dicts" /\ ValidSet(els)
    /\ Len(els) = 2 /\ els[1] # els[2]
    /\ Len(normalized.seq) = 2

\* C7: well-formed numeric elements with one out of range fail with OutOfRange in
\* every shape, and every coordinate returned is in range.
C7_OutOfRange ==
    Normalized =>
        /\ (/\ shape \in ListShapes \cup SingleShapes
            /\ \A i \in 1..Len(els) : WellFormed(els[i])
            /\ \E i \in 1..Len(els) : ~InRange(els[i]))
           => (normalized.kind = "throw" /\ normalized.err = "OutOfRange")
        /\ normalized.kind = "ok" =>
               \A i \in 1..Len(normalized.seq) :
                   /\ LatInRange(normalized.seq[i][1])
                   /\ LonInRange(normalized.seq[i][2])

C7_Witness ==
    /\ Normalized /\ shape = "json_single"
    /\ WellFormed(els[1]) /\ LatInRange(LatOf(els[1])) /\ ~LonInRange(LonOf(els[1]))
    /\ normalized = Throw("OutOfRange", "lon")

\* C8: encoding a normalized sequence and normalizing the text gives the sequence
\* back.
C8_RoundTrip == npc = "renormalized" => renormalized = Ok(normalized.seq)

C8_Witness ==
    /\ npc = "renormalized" /\ Len(normalized.seq) = 2
    /\ normalized.seq[1] # normalized.seq[2]
    /\ renormalized.kind = "ok"

(***************************************************************************)
(* The claims about the endpoints.                                         *)
(***************************************************************************)
InRoute == op = "heavy_truck_route_geojson"

InRouting == op \in {"heavy_truck_distance", "heavy_truck_route_geojson"}

\* The waypoints argument is absent, empty or normalizes to 0 or 1 coordinates.
FewWaypoints ==
    /\ normalize_waypoints(args.waypoints).kind = "ok"
    /\ Len(normalize_waypoints(args.waypoints).seq) < 2

\* An explicit key is given, or a key is configured.
KeyGiven ==
    \/ Truthy(args.api_key)
    \/ (Truthy(conf_key) /\ Strip(conf_key.str) # <<>>)

\* C4 as stated: fewer than two waypoints fail with InsufficientWaypoints and
\* without a request, whatever the key configuration is.
C4_InsufficientWhateverTheKey ==
    (InRoute /\ FewWaypoints) =>
        /\ pc = "done" /\ requests = <<>>
        /\ outcome = Failed("InsufficientWaypoints")

\* C4 as amended: fewer than two waypoints fail without a request; with
\* InsufficientWaypoints when a key is given or configured, with
\* MissingCredential when none is, the key being resolved first.
C4_InsufficientAfterKey ==
    (InRoute /\ FewWaypoints) =>
        /\ pc = "done" /\ requests = <<>>
        /\ outcome = Failed(IF KeyGiven THEN "InsufficientWaypoints" ELSE "MissingCredential")

C4_Witness ==
    /\ InRoute /\ pc = "done" /\ args.waypoints.t = "dict"
    /\ args.max_speed # PyNone
    /\ outcome = Failed("InsufficientWaypoints")

\* C5: the key of a routing request is the explicit argument when one is given,
\* else the configured key, and it is never empty; without a usable key the call
\* fails with MissingCredential.
C5_KeyNeverEmpty ==
    InRouting =>
        /\ \A i \in 1..Len(requests) :
               /\ requests[i].params.apiKey # <<>>
               /\ requests[i].params.apiKey =
                      Strip(IF Truthy(args.api_key) THEN args.api_key.str ELSE conf_key.str)
        /\ (pc = "done" /\ outcome = Failed("MissingCredential")) => ~KeyGiven

\* The reply's list of routes or features: the member of the JSON object.
ReplyList ==
    LET j == JsonLoads(response.text)
    IN IF j.ok /\ j.val.t = "dict"
       THEN DictGet(j.val, IF InRoute THEN KeyText.features ELSE KeyText.results)
       ELSE PyNone

\* The error payload: the parsed body, or the raw text under "message".
ReplyPayload ==
    IF JsonLoads(response.text).ok THEN JsonLoads(response.text).val
    ELSE PyDict(<< <<KeyText.message, PyStr(response.text)>> >>)

\* The outcome for a reply treated as success: EmptyResult for an empty or
\* missing list, else a result built from the first entry.
SuccessOutcome ==
    IF ~(ReplyList.t = "list" /\ ReplyList.items # <<>>) THEN outcome = Failed("EmptyResult")
    ELSE /\ outcome.kind = "ok"
         /\ IF InRoute
            THEN LET f == ReplyList.items[1]
                     p == IF Truthy(DictGet(f, KeyText.properties))
                          THEN DictGet(f, KeyText.properties) ELSE PyDict(<<>>)
                 IN /\ outcome.result.summary.distance = DictGet(p, KeyText.distance)
                    /\ outcome.result.summary.time_seconds = DictGet(p, KeyText.time)
                    /\ outcome.result.geojson = JsonLoads(response.text).val
            ELSE /\ outcome.result.distance = DictGet(ReplyList.items[1], KeyText.distance)
                 /\ outcome.result.time_seconds = DictGet(ReplyList.items[1], KeyText.time)

Replied == InRouting /\ pc = "done" /\ response # NoResponse

\* C6: once the request is out, a transport failure is UpstreamUnavailable, a
\* non-2xx status UpstreamError with the code and the body, and every 2xx status
\* a success: EmptyResult without a list entry, else the result of the first.
C6_Every2xxIsSuccess ==
    Replied =>
        IF response.kind = "error" THEN outcome = Failed("UpstreamUnavailable")
        ELSE IF response.status_code < 200 \/ response.status_code > 299
             THEN outcome = UpstreamError(response.status_code, ReplyPayload)
        ELSE SuccessOutcome

ShortText == ~Truthy(args.text) \/ Len(args.text.str) < 3

\* C9: a short or absent text returns the empty list without reading the key and
\* without a request, key or no key; a longer text without a configured key
\* fails with MissingCredential before any request.
C9_ShortTextShortCircuits ==
    op = "autocomplete" =>
        /\ ShortText =>
               /\ pc = "done" /\ outcome = Returned(<<>>)
               /\ key_lookups = 0 /\ requests = <<>>
        /\ (~ShortText /\ ~Truthy(settings_key)) =>
               /\ pc = "done" /\ outcome = Failed("MissingCredential")
               /\ requests = <<>>

C9_Witness ==
    /\ op = "autocomplete" /\ pc = "done"
    /\ args.text = PyStr(<<"a", "b">>) /\ settings_key = PyNone
    /\ outcome = Returned(<<>>)

\* C10: a call issues at most one request, none before the key and the input
\* passed their checks, and none again after the reply, whatever the reply was.
C10_AtMostOneRequest ==
    /\ Len(requests) <= 1
    /\ (pc = "done" /\ response # NoResponse) => Len(requests) = 1
    /\ (/\ pc = "done" /\ outcome.kind = "throw"
        /\ outcome.err \in {"MissingCredential", "InvalidNumber", "OutOfRange",
                            "InvalidFormat", "InsufficientWaypoints"})
       => (requests = <<>> /\ response = NoResponse)

C10_Witness ==
    /\ pc = "done" /\ response = TransportError
    /\ Len(requests) = 1 /\ outcome = Failed("UpstreamUnavailable")

=============================================================================
